---- MODULE Spec2Model ----
(***************************************************************************)
(* State-machine model of the MIAW MCP server (skyrmionz/miaw-mcp-server): *)
(* the session store, the shared MIAWClient credential, and handleToolCall *)
(* with its list_conversation_entries poll loop and the close chain.       *)
(*                                                                         *)
(* JavaScript runs one handler at a time and a handler only gives up       *)
(* control at an await, so every action below is the code that runs from   *)
(* one await (or from the invocation) to the next.                         *)
(*                                                                         *)
(* Strings that the code searches with String.includes are sequences of    *)
(* words, and Includes is a contiguous-subsequence search over them.       *)
(***************************************************************************)
EXTENDS Integers, Sequences, FiniteSets, TLC

\* ------------------------------------------------------------------ bounds
NumCallers == 2          \* concurrent handleToolCall invocations
MaxSessions == 2         \* session ids the store can hold
MaxTokens == 2           \* access tokens the remote service issues
ShortLatency == 20       \* a fast remote call, in ms
LongLatency == 12000     \* a slow remote call, in ms
MaxListCalls == 53       \* the counters of one invocation stop counting here
MaxConversations == 1    \* conversation ids generateUUID can return

\* ------------------------------------------------------- program constants
maxWaitTime == 25000
pollInterval == 500

Callers == 1..NumCallers
SessionIds == 1..MaxSessions
Tokens == 1..MaxTokens
ConversationIds == 1..MaxConversations

NoToken == 0             \* client.accessToken = null
Absent == 0              \* args.sessionId undefined
EmptyId == -1            \* args.sessionId = "" (supplied, falsy)
StaleId == -2            \* args.sessionId = an id the store never held

\* if (args.sessionId): undefined and "" are falsy, every other id is truthy.
Truthy(sid) == sid \notin {Absent, EmptyId}
SessionArgs == SessionIds \cup {Absent, EmptyId, StaleId}

\* ------------------------------------------------------- String.includes
Includes(s, sub) ==
  \E i \in 1..(Len(s) - Len(sub) + 1) : SubSeq(s, i, i + Len(sub) - 1) = sub

AutomatedProcess == <<"Automated", "Process">>
PhraseOneMoment == <<"One", "moment", "while", "I", "connect", "you">>
PhraseNextAvailable == <<"connect", "you", "to", "the", "next", "available">>
PhraseThanks == <<"thanks", "for", "reaching", "out">>
PhraseShortly == <<"We", "will", "be", "with", "you", "shortly">>

IsSystemMessageText(text) ==
  \/ Includes(text, PhraseOneMoment)
  \/ Includes(text, PhraseNextAvailable)
  \/ Includes(text, PhraseThanks)
  \/ Includes(text, PhraseShortly)

\* ------------------------------------------------------ conversation entries
\* A remote entry.  role is sender.role ("" when missing), text is
\* entryPayload.abstractMessage.staticContent.text, transcriptedTimestamp 0 is
\* a missing timestamp, and the last three fields are the payload/top-level
\* fields the code reads defensively.
Entry(type, role, name, reason, text, ts) ==
  [entryType |-> type, role |-> role, senderDisplayName |-> name,
   messageReason |-> reason, text |-> text, transcriptedTimestamp |-> ts,
   senderRole |-> "", routingType |-> "", participantChangeType |-> "",
   leftRole |-> ""]

IsMessage(e) == e.entryType = "Message"

\* Array.prototype.sort is stable: insert e behind every element that the
\* comparator (b.ts || 0) - (a.ts || 0) does not put after it.
RECURSIVE InsertNewestFirst(_, _)
InsertNewestFirst(sorted, e) ==
  IF sorted = <<>> THEN <<e>>
  ELSE IF Head(sorted).transcriptedTimestamp >= e.transcriptedTimestamp
       THEN <<Head(sorted)>> \o InsertNewestFirst(Tail(sorted), e)
       ELSE <<e>> \o sorted

RECURSIVE SortFrom(_, _)
SortFrom(acc, rest) ==
  IF rest = <<>> THEN acc
  ELSE SortFrom(InsertNewestFirst(acc, Head(rest)), Tail(rest))

SortNewestFirst(s) == SortFrom(<<>>, s)

\* allMessages of the poll loop: Message entries, newest first.
AllMessages(entries) == SortNewestFirst(SelectSeq(entries, IsMessage))

\* Mutant: the stop test accepts the bot's messages only.
IsValidResponseChatbotOnly(entries) ==
  LET allMessages == AllMessages(entries) IN
  /\ allMessages # <<>>
  /\ LET m == allMessages[1]
         isSystemMessage == IsSystemMessageText(m.text)
         isAutomatedProcess == Includes(m.senderDisplayName, AutomatedProcess)
     IN  /\ m.role = "Chatbot"
         /\ ~isSystemMessage
         /\ ~isAutomatedProcess

\* The poll loop's test of the absolute most recent message.
IsValidResponse(entries) ==
  LET allMessages == AllMessages(entries) IN
  /\ allMessages # <<>>
  /\ LET m == allMessages[1]
         isSystemMessage == IsSystemMessageText(m.text)
         isAutomatedProcess == Includes(m.senderDisplayName, AutomatedProcess)
     IN  /\ m.role \in {"Chatbot", "Agent"}
         /\ ~isSystemMessage
         /\ ~isAutomatedProcess

\* validMsgs of the skipPolling branch: Chatbot/Agent messages, newest first.
IsResponseRole(e) == e.role \in {"Chatbot", "Agent"}

ValidMsgs(entries) == SelectSeq(AllMessages(entries), IsResponseRole)

\* Mutant: the _roleInfo filter without the "Automated Process" test.
RoleInfoKeepsAutomatedProcess(e) ==
  LET isSystemRole == e.role = "System" \/ e.role = ""
      isAutomatedResponse == e.messageReason = "AutomatedResponse"
      isSystemMessage == IsSystemMessageText(e.text)
      isResponseRole == e.role \in {"Chatbot", "Agent"}
  IN  isResponseRole /\ ~isSystemRole /\ ~isAutomatedResponse /\ ~isSystemMessage

\* The filter behind _roleInfo (responseMessages).
RoleInfoKeeps(e) ==
  LET isSystemRole == e.role = "System" \/ e.role = ""
      isAutomatedProcess == Includes(e.senderDisplayName, AutomatedProcess)
      isAutomatedResponse == e.messageReason = "AutomatedResponse"
      isSystemMessage == IsSystemMessageText(e.text)
      isResponseRole == e.role \in {"Chatbot", "Agent"}
  IN  isResponseRole /\ ~isSystemRole /\ ~isAutomatedProcess
        /\ ~isAutomatedResponse /\ ~isSystemMessage

ResponseMessages(entries) ==
  SortNewestFirst(SelectSeq(SelectSeq(entries, IsMessage), RoleInfoKeeps))

\* Mutant: the role is taken from the oldest response.
SenderRoleOfOldest(entries) ==
  LET r == ResponseMessages(entries) IN
  IF r = <<>> THEN "Unknown"
  ELSE IF r[Len(r)].role # "" THEN r[Len(r)].role
  ELSE IF r[Len(r)].senderRole # "" THEN r[Len(r)].senderRole
  ELSE "Unknown"

SenderRole(entries) ==
  LET r == ResponseMessages(entries) IN
  IF r = <<>> THEN "Unknown"
  ELSE IF r[1].role # "" THEN r[1].role
  ELSE IF r[1].senderRole # "" THEN r[1].senderRole
  ELSE "Unknown"

SenderDisplayName(entries) ==
  LET r == ResponseMessages(entries) IN
  IF r = <<>> \/ r[1].senderDisplayName = <<>> THEN <<"Unknown">>
  ELSE r[1].senderDisplayName

\* The filter behind the returned entries (filteredEntries).
FilterKeeps(e) ==
  /\ e.entryType = "Message"
  /\ LET isSystemRole == e.role = "System" \/ e.role = ""
         isEndUser == e.role = "EndUser"
         isAutomatedProcess ==
           \/ Includes(e.senderDisplayName, AutomatedProcess)
           \/ Includes(e.senderDisplayName, <<"automated">>)
         isAutomatedResponse == e.messageReason = "AutomatedResponse"
         isSystemMessage == IsSystemMessageText(e.text)
         isResponseRole == e.role \in {"Chatbot", "Agent"}
         shouldReject ==
           isSystemRole \/ isEndUser \/ isAutomatedProcess
             \/ isAutomatedResponse \/ isSystemMessage \/ ~isResponseRole
     IN  ~shouldReject

FilteredEntries(entries) == SelectSeq(entries, FilterKeeps)

IsCloseEvent(e) ==
  \/ e.entryType = "ConversationClose"
  \/ (e.entryType = "RoutingResult" /\ e.routingType = "EndConversation")
  \/ (e.entryType = "ParticipantChanged" /\ e.participantChangeType = "Left")

ConversationEnded(entries) == SelectSeq(entries, IsCloseEvent) # <<>>

\* Mutant: the live agent is tested before the end of the conversation.
InstructionHandoffFirst(conversationEnded, isLiveAgent, foundValidMessage, senderRole) ==
  IF isLiveAgent THEN "handoff"
  ELSE IF conversationEnded THEN "ended"
  ELSE IF ~foundValidMessage \/ senderRole = "Unknown" THEN "waiting"
  ELSE "verbatim"

\* Mutant: no "still waiting" branch.
InstructionWithoutWaiting(conversationEnded, isLiveAgent, foundValidMessage, senderRole) ==
  IF conversationEnded THEN "ended"
  ELSE IF isLiveAgent THEN "handoff"
  ELSE "verbatim"

Instruction(conversationEnded, isLiveAgent, foundValidMessage, senderRole) ==
  IF conversationEnded THEN "ended"
  ELSE IF isLiveAgent THEN "handoff"
  ELSE IF ~foundValidMessage \/ senderRole = "Unknown" THEN "waiting"
  ELSE "verbatim"

\* A response body of the entry-listing call.  A falsy body (an empty 200/204
\* body is the empty string) has no entries and fails the loop's
\* "|| !entriesResult" test.
Body(entries) == [truthy |-> TRUE, entries |-> entries]
FalsyBody == [truthy |-> FALSE, entries |-> <<>>]

\* _roleInfo and the rest of the list_conversation_entries result.
ListResult(body, foundValidMessage) ==
  LET senderRole == SenderRole(body.entries)
      isLiveAgent == senderRole = "Agent"
      conversationEnded == ConversationEnded(body.entries)
  IN  [status |-> "ok", error |-> "none", tokens |-> {},
       entries |-> FilteredEntries(body.entries),
       rawEntries |-> body.entries,
       mostRecentSenderRole |-> senderRole,
       mostRecentSenderName |-> SenderDisplayName(body.entries),
       isLiveAgent |-> isLiveAgent,
       conversationEnded |-> conversationEnded,
       instruction |->
         Instruction(conversationEnded, isLiveAgent, foundValidMessage, senderRole)]

NoResult == [status |-> "none", error |-> "none", tokens |-> {}]
ErrorResult(kind) == [status |-> "error", error |-> kind, tokens |-> {}]

\* ------------------------------------------------------------------- state
VARIABLES
  sessions,      \* the sessions Map: sessionId -> [accessToken, conversationId]
  clientToken,   \* the shared MIAWClient's accessToken / Authorization header
  issued,        \* access tokens the remote service has issued so far
  call           \* per caller: the handleToolCall invocation in progress

vars == <<sessions, clientToken, issued, call>>

NoConversation == 0

\* The locals of one handleToolCall invocation, with what it has done so far:
\* elapsed is Date.now() - startTime, nList/nSleep/nReq count the entry-listing
\* calls, the inter-poll sleeps and all remote requests, reqTokens are the
\* bearer tokens its requests carried, tried/succeeded the close methods.
\* The counters and the clock of the poll loop stop at MaxListCalls calls (far
\* past the deadline); lap, the parity of the listing calls, goes on.
IdleCall ==
  [pc |-> "idle", tool |-> "none", sid |-> Absent, skipPolling |-> FALSE,
   elapsed |-> 0, nList |-> 0, nSleep |-> 0, nReq |-> 0, lap |-> 0,
   reqTokens |-> {},
   entriesResult |-> FalsyBody, foundValidMessage |-> FALSE,
   conv |-> NoConversation, method |-> 0, tried |-> {}, succeeded |-> {},
   result |-> NoResult]

Init ==
  /\ sessions = << >>
  /\ clientToken = NoToken
  /\ issued = 0
  /\ call = [c \in Callers |-> IdleCall]

Known(sid) == sid \in DOMAIN sessions

\* The "if (args.sessionId) { ... }" prologue of the session-scoped tools:
\* the token the shared client holds after it, or the thrown error.
InvalidSession(sid) == Truthy(sid) /\ ~Known(sid)

TokenAfterPrologue(sid) ==
  IF Truthy(sid) THEN sessions[sid].accessToken ELSE clientToken

Started(tool, sid) ==
  [IdleCall EXCEPT !.tool = tool, !.sid = sid]

\* One more remote request of the invocation r, carrying the bearer token tok.
Request(r, tok) ==
  [r EXCEPT !.nReq = @ + 1, !.reqTokens = @ \cup {tok}]

Throw(r, kind) == [r EXCEPT !.pc = "done", !.result = ErrorResult(kind)]

\* ------------------------------------------------- generate_*_access_token
TokenCallsInFlight ==
  Cardinality({c \in Callers : call[c].pc \in {"awaitGuestToken", "awaitAuthToken"}})

InvokeGuestToken(c) ==
  /\ call[c].pc = "idle"
  /\ issued + TokenCallsInFlight < MaxTokens
  /\ call' = [call EXCEPT ![c] =
       [Request(Started("generate_guest_access_token", Absent), clientToken)
          EXCEPT !.pc = "awaitGuestToken"]]
  /\ UNCHANGED <<sessions, clientToken, issued>>

\* The token response arrives: setAccessToken, then a fresh sessionId is
\* stored and returned in place of the token.
GuestTokenResponse(c) ==
  /\ call[c].pc = "awaitGuestToken"
  /\ \E sessionId \in SessionIds \ DOMAIN sessions :
       LET accessToken == issued + 1 IN
       /\ issued' = accessToken
       /\ clientToken' = accessToken
       /\ sessions' = sessions @@
            (sessionId :> [accessToken |-> accessToken,
                           conversationId |-> NoConversation])
       /\ call' = [call EXCEPT ![c] =
            [@ EXCEPT !.pc = "done",
               !.result = [status |-> "ok", error |-> "none", tokens |-> {},
                           sessionId |-> sessionId]]]

InvokeAuthenticatedToken(c) ==
  /\ call[c].pc = "idle"
  /\ issued + TokenCallsInFlight < MaxTokens
  /\ call' = [call EXCEPT ![c] =
       [Request(Started("generate_authenticated_access_token", Absent),
                clientToken)
          EXCEPT !.pc = "awaitAuthToken"]]
  /\ UNCHANGED <<sessions, clientToken, issued>>

\* result = the remote AccessTokenResponse itself, accessToken included.
AuthenticatedTokenResponse(c) ==
  /\ call[c].pc = "awaitAuthToken"
  /\ LET accessToken == issued + 1 IN
     /\ issued' = accessToken
     /\ clientToken' = accessToken
     /\ call' = [call EXCEPT ![c] =
          [@ EXCEPT !.pc = "done",
             !.result = [status |-> "ok", error |-> "none",
                         tokens |-> {accessToken}]]]
  /\ UNCHANGED sessions

\* Mutant: a failed entry-listing call is taken as "nothing yet" and the loop
\* sleeps and polls again.
RemoteCallFailsThenRetries(c, pcs) ==
  /\ call[c].pc \in pcs
  /\ LET r == call[c] IN
     call' = [call EXCEPT ![c] =
       IF r.pc = "awaitList"
       THEN [r EXCEPT !.pc = "sleeping", !.nSleep = @ + 1,
                      !.result = ErrorResult("AxiosError")]
       ELSE Throw(r, "AxiosError")]
  /\ UNCHANGED <<sessions, clientToken, issued>>

\* Any awaited remote call may reject (network error, timeout, non-2xx); the
\* error leaves handleToolCall and the transport turns it into an error
\* payload.
RemoteCallFails(c, pcs) ==
  /\ call[c].pc \in pcs
  /\ call' = [call EXCEPT ![c] = Throw(@, "AxiosError")]
  /\ UNCHANGED <<sessions, clientToken, issued>>

\* The caller takes the result; the slot is free for the next invocation.
Return(c) ==
  /\ call[c].pc = "done"
  /\ call' = [call EXCEPT ![c] = IdleCall]
  /\ UNCHANGED <<sessions, clientToken, issued>>

\* -------------------------------------------------- list_conversation_entries
\* Mutant: the live-agent flag is reported by polling calls only.
FinishByMode(r, found) ==
  [r EXCEPT !.pc = "done", !.foundValidMessage = found,
            !.result = [ListResult(r.entriesResult, found)
                          EXCEPT !.isLiveAgent = @ /\ ~r.skipPolling]]

\* The loop is left: the result is built from the last body fetched.
Finish(r, found) ==
  [r EXCEPT !.pc = "done", !.foundValidMessage = found,
            !.result = ListResult(r.entriesResult, found)]

\* The while test passed: the next entry-listing request goes out, with the
\* token the shared client holds at that moment.
IssueList(r, tok) ==
  [Request(r, tok) EXCEPT
     !.pc = "awaitList",
     !.lap = 1 - @,
     !.nList = IF @ < MaxListCalls THEN @ + 1 ELSE @,
     !.nReq = IF @ > MaxListCalls THEN MaxListCalls ELSE @]

\* Date.now() - startTime once a remote call of lat ms has returned.
Tick(r, lat) == IF r.nList < MaxListCalls THEN r.elapsed + lat ELSE r.elapsed

\* while (Date.now() - startTime < maxWaitTime || !entriesResult)
LoopTest(r) ==
  LET wait == IF r.skipPolling THEN 0 ELSE maxWaitTime IN
  r.elapsed < wait \/ ~r.entriesResult.truthy

NextIteration(r, tok) ==
  IF LoopTest(r) THEN IssueList(r, tok) ELSE Finish(r, r.foundValidMessage)

\* The invocation up to its first await: the session prologue, then the first
\* pass of the loop (always entered, entriesResult being undefined).
InvokeList(c, sid, skip) ==
  /\ call[c].pc = "idle"
  /\ LET r == [Started("list_conversation_entries", sid)
                 EXCEPT !.skipPolling = skip] IN
     IF InvalidSession(sid)
     THEN /\ call' = [call EXCEPT ![c] = Throw(r, "InvalidSessionId")]
          /\ UNCHANGED clientToken
     ELSE /\ clientToken' = TokenAfterPrologue(sid)
          /\ call' = [call EXCEPT ![c] = IssueList(r, TokenAfterPrologue(sid))]
  /\ UNCHANGED <<sessions, issued>>

\* Mutant: the loop ignores skipPolling (no widget break, full deadline).
ListResponseIgnoresSkipPolling(c, lat, body) ==
  /\ call[c].pc = "awaitList"
  /\ LET r == [call[c] EXCEPT !.elapsed = Tick(call[c], lat),
                              !.entriesResult = body]
         wait == maxWaitTime
     IN  \/ /\ IsValidResponse(body.entries)
            /\ call' = [call EXCEPT ![c] = Finish(r, TRUE)]
         \/ /\ ~IsValidResponse(body.entries)
            /\ r.elapsed < wait
            /\ call' = [call EXCEPT ![c] =
                 [r EXCEPT !.pc = "sleeping", !.nSleep = @ + 1]]
         \/ /\ ~IsValidResponse(body.entries)
            /\ ~(r.elapsed < wait)
            /\ call' = [call EXCEPT ![c] = NextIteration(r, clientToken)]
  /\ UNCHANGED <<sessions, clientToken, issued>>

\* The entry-listing call returns body after lat ms: the rest of the loop
\* body, up to the sleep, the next request or the result.
ListResponse(c, lat, body) ==
  /\ call[c].pc = "awaitList"
  /\ LET r == [call[c] EXCEPT !.elapsed = Tick(call[c], lat),
                              !.entriesResult = body]
         wait == IF r.skipPolling THEN 0 ELSE maxWaitTime
     IN  \/ /\ IsValidResponse(body.entries)
            /\ call' = [call EXCEPT ![c] = Finish(r, TRUE)]
         \/ /\ ~IsValidResponse(body.entries)
            /\ r.skipPolling
            /\ call' = [call EXCEPT ![c] =
                 Finish(r, ValidMsgs(body.entries) # <<>>)]
         \/ /\ ~IsValidResponse(body.entries)
            /\ ~r.skipPolling
            /\ r.elapsed < wait
            /\ call' = [call EXCEPT ![c] =
                 [r EXCEPT !.pc = "sleeping", !.nSleep = @ + 1]]
         \/ /\ ~IsValidResponse(body.entries)
            /\ ~r.skipPolling
            /\ ~(r.elapsed < wait)
            /\ call' = [call EXCEPT ![c] = NextIteration(r, clientToken)]
  /\ UNCHANGED <<sessions, clientToken, issued>>

\* setTimeout(resolve, pollInterval) fires: the while test again.
ListWake(c) ==
  /\ call[c].pc = "sleeping"
  /\ LET r == [call[c] EXCEPT !.elapsed = @ + pollInterval] IN
     /\ call' = [call EXCEPT ![c] = NextIteration(r, clientToken)]
  /\ UNCHANGED <<sessions, clientToken, issued>>

\* ------------------------- create_conversation, send_message, routing status
\* The prologue, then the one remote request of the tool.
InvokeSessionTool(c, tool, sid, pc) ==
  /\ call[c].pc = "idle"
  /\ IF InvalidSession(sid)
     THEN /\ call' = [call EXCEPT ![c] =
               Throw(Started(tool, sid), "InvalidSessionId")]
          /\ UNCHANGED clientToken
     ELSE /\ clientToken' = TokenAfterPrologue(sid)
          /\ call' = [call EXCEPT ![c] =
               [Request(Started(tool, sid), TokenAfterPrologue(sid))
                  EXCEPT !.pc = pc]]
  /\ UNCHANGED <<sessions, issued>>

InvokeCreateConversation(c, sid) ==
  InvokeSessionTool(c, "create_conversation", sid, "awaitCreate")

\* Mutant: the new conversationId is stored in every session.
CreateConversationResponseStoresInAll(c) ==
  /\ call[c].pc = "awaitCreate"
  /\ \E convId \in ConversationIds :
       /\ sessions' =
            [s \in DOMAIN sessions |->
               [sessions[s] EXCEPT !.conversationId = convId]]
       /\ call' = [call EXCEPT ![c] =
            [@ EXCEPT !.pc = "done", !.conv = convId,
               !.result = [status |-> "ok", error |-> "none", tokens |-> {},
                           conversationId |-> convId]]]
  /\ UNCHANGED <<clientToken, issued>>

\* POST /conversation returned: the locally generated conversationId is
\* stored in the session when the call named one that (still) exists.
CreateConversationResponse(c) ==
  /\ call[c].pc = "awaitCreate"
  /\ \E convId \in ConversationIds :
       /\ sessions' =
            IF Truthy(call[c].sid) /\ Known(call[c].sid)
            THEN [sessions EXCEPT ![call[c].sid].conversationId = convId]
            ELSE sessions
       /\ call' = [call EXCEPT ![c] =
            [@ EXCEPT !.pc = "done", !.conv = convId,
               !.result = [status |-> "ok", error |-> "none", tokens |-> {},
                           conversationId |-> convId]]]
  /\ UNCHANGED <<clientToken, issued>>

InvokeSendMessage(c, sid) ==
  InvokeSessionTool(c, "send_message", sid, "awaitSend")

InvokeRoutingStatus(c, sid) ==
  InvokeSessionTool(c, "get_conversation_routing_status", sid, "awaitStatus")

\* send_message and get_conversation_routing_status hand the remote answer on.
PlainResponse(c) ==
  /\ call[c].pc \in {"awaitSend", "awaitStatus"}
  /\ call' = [call EXCEPT ![c] =
       [@ EXCEPT !.pc = "done",
          !.result = [status |-> "ok", error |-> "none", tokens |-> {}]]]
  /\ UNCHANGED <<sessions, clientToken, issued>>

\* ------------------------------------------------------ show_salesforce_chat
\* Mutant: the transcript filter accepts the responding roles only.
WidgetKeepsResponsesOnly(e) ==
  LET isSystemRole == e.role = "System" \/ e.role = ""
      isAutomatedProcess == Includes(e.senderDisplayName, AutomatedProcess)
      isAutomatedResponse == e.messageReason = "AutomatedResponse"
      isSystemMessage == IsSystemMessageText(e.text)
      isValidRole == e.role \in {"Chatbot", "Agent"}
  IN  isValidRole /\ ~isSystemRole /\ ~isAutomatedProcess
        /\ ~isAutomatedResponse /\ ~isSystemMessage

WidgetKeeps(e) ==
  LET isSystemRole == e.role = "System" \/ e.role = ""
      isAutomatedProcess == Includes(e.senderDisplayName, AutomatedProcess)
      isAutomatedResponse == e.messageReason = "AutomatedResponse"
      isSystemMessage == IsSystemMessageText(e.text)
      isValidRole == e.role \in {"Chatbot", "Agent", "EndUser"}
  IN  isValidRole /\ ~isSystemRole /\ ~isAutomatedProcess
        /\ ~isAutomatedResponse /\ ~isSystemMessage

Reverse(s) == [i \in 1..Len(s) |-> s[Len(s) + 1 - i]]

\* Stable ascending sort by (a.ts || 0) - (b.ts || 0).
SortOldestFirst(s) == Reverse(SortNewestFirst(Reverse(s)))

Transcript(entries) ==
  SortOldestFirst(SelectSeq(SelectSeq(entries, IsMessage), WidgetKeeps))

InvokeShowChat(c, sid) ==
  InvokeSessionTool(c, "show_salesforce_chat", sid, "awaitChat")

ShowChatResponse(c, body) ==
  /\ call[c].pc = "awaitChat"
  /\ call' = [call EXCEPT ![c] =
       [@ EXCEPT !.pc = "done", !.entriesResult = body,
          !.result = [status |-> "ok", error |-> "none", tokens |-> {},
                      messages |-> Transcript(body.entries)]]]
  /\ UNCHANGED <<sessions, clientToken, issued>>

\* --------------------------------------------------------- close_conversation
CloseMethods == 1..5

\* Method k of closeConversationAndSession goes out.
Attempt(r, k, tok) ==
  [Request(r, tok) EXCEPT !.pc = "closing", !.method = k, !.tried = @ \cup {k}]

Closed(r) ==
  [r EXCEPT !.pc = "done",
            !.result = [status |-> "ok", error |-> "none", tokens |-> {},
                        success |-> TRUE]]

\* Mutant: close_conversation with the throwing prologue of the other tools.
InvokeCloseStrict(c, sid) ==
  /\ call[c].pc = "idle"
  /\ IF InvalidSession(sid)
     THEN /\ call' = [call EXCEPT ![c] =
               Throw(Started("close_conversation", sid), "InvalidSessionId")]
          /\ UNCHANGED clientToken
     ELSE /\ clientToken' = TokenAfterPrologue(sid)
          /\ call' = [call EXCEPT ![c] =
               Attempt(Started("close_conversation", sid), 1,
                       TokenAfterPrologue(sid))]
  /\ UNCHANGED <<sessions, issued>>

\* The prologue never throws: an unknown or missing sessionId is only logged.
InvokeClose(c, sid) ==
  /\ call[c].pc = "idle"
  /\ LET tok == IF Truthy(sid) /\ Known(sid)
                THEN sessions[sid].accessToken ELSE clientToken IN
     /\ clientToken' = tok
     /\ call' = [call EXCEPT ![c] =
          Attempt(Started("close_conversation", sid), 1, tok)]
  /\ UNCHANGED <<sessions, issued>>

\* Mutant: method 1 has lost its return.
CloseStepNoReturnAfterFirst(c, ok) ==
  /\ call[c].pc = "closing"
  /\ LET k == call[c].method
         r == [call[c] EXCEPT !.succeeded = IF ok THEN @ \cup {k} ELSE @]
     IN  call' = [call EXCEPT ![c] =
           IF (ok /\ k = 2) \/ k = 5
           THEN Closed(r)
           ELSE Attempt(r, k + 1, clientToken)]
  /\ UNCHANGED <<sessions, clientToken, issued>>

\* Mutant: every method returns on success.
CloseStepReturnsOnAnySuccess(c, ok) ==
  /\ call[c].pc = "closing"
  /\ LET k == call[c].method
         r == [call[c] EXCEPT !.succeeded = IF ok THEN @ \cup {k} ELSE @]
     IN  call' = [call EXCEPT ![c] =
           IF ok \/ k = 5
           THEN Closed(r)
           ELSE Attempt(r, k + 1, clientToken)]
  /\ UNCHANGED <<sessions, clientToken, issued>>

\* Method k answered: methods 1 and 2 return on success, every other outcome
\* falls through to the next method, and after method 5 the chain ends.
CloseStep(c, ok) ==
  /\ call[c].pc = "closing"
  /\ LET k == call[c].method
         r == [call[c] EXCEPT !.succeeded = IF ok THEN @ \cup {k} ELSE @]
     IN  call' = [call EXCEPT ![c] =
           IF (ok /\ k \in {1, 2}) \/ k = 5
           THEN Closed(r)
           ELSE Attempt(r, k + 1, clientToken)]
  /\ UNCHANGED <<sessions, clientToken, issued>>

\* ------------------------------------------------------------ remote answers
UserMsg(ts) == Entry("Message", "EndUser", <<"Guest">>, "", <<"hi">>, ts)
BotMsg(ts) ==
  Entry("Message", "Chatbot", <<"Agentforce">>, "", <<"How", "can", "I", "help">>, ts)
AgentMsg(ts) ==
  Entry("Message", "Agent", <<"Sam">>, "", <<"Hi", "I", "am", "Sam">>, ts)
BotThanksMsg(ts) ==
  Entry("Message", "Chatbot", <<"Agentforce">>, "",
        <<"Hello", "thanks", "for", "reaching", "out">>, ts)
BotAutomatedResponseMsg(ts) ==
  Entry("Message", "Chatbot", <<"Agentforce">>, "AutomatedResponse",
        <<"Your", "request", "was", "received">>, ts)
AutomatedProcessMsg(ts) ==
  Entry("Message", "Agent", <<"Salesforce", "Automated", "Process">>, "",
        <<"Transfer", "started">>, ts)
RoutingEntry ==
  Entry("RoutingResult", "System", <<>>, "", <<>>, 2)

BotOneMomentMsg(ts) ==
  Entry("Message", "Chatbot", <<"Agentforce">>, "",
        <<"One", "moment", "while", "I", "connect", "you">>, ts)
\* A bot whose display name has the lowercase word "automated".
AutomatedAssistantMsg(ts) ==
  Entry("Message", "Chatbot", <<"Acme", "automated", "assistant">>, "",
        <<"How", "can", "I", "help">>, ts)
\* "Automated Process" as the display name under the other roles.
AutomatedProcessAs(role, ts) ==
  Entry("Message", role, <<"Automated", "Process">>, "",
        <<"Routing", "update">>, ts)

ConversationCloseEntry ==
  Entry("ConversationClose", "System", <<>>, "", <<>>, 4)

RoutingEndEntry ==
  [Entry("RoutingResult", "System", <<>>, "", <<>>, 4)
     EXCEPT !.routingType = "EndConversation"]
\* A ParticipantChanged entry: the participant of the given role joined/left.
ParticipantChangedEntry(role, change) ==
  [Entry("ParticipantChanged", "System", <<>>, "", <<>>, 4)
     EXCEPT !.participantChangeType = change, !.leftRole = role]

\* Latencies of a remote call in the poll-loop specification, in ms.
PollLatencies == {0, ShortLatency}

\* Bodies the entry-listing call answers the poll loop with: an empty body,
\* no entries, a stale bot or agent message under the user's newer one,
\* boilerplate as
\* the newest message, and newest messages of each responding kind.
PollBodies ==
  { FalsyBody,
    Body(<<>>),
    Body(<<BotMsg(1), UserMsg(2)>>),
    Body(<<AgentMsg(1), UserMsg(2)>>),
    Body(<<UserMsg(1), BotThanksMsg(2)>>),
    Body(<<UserMsg(1), BotMsg(2)>>),
    Body(<<UserMsg(1), BotThanksMsg(2), AgentMsg(3)>>),
    Body(<<AgentMsg(2), UserMsg(1), BotMsg(2)>>),
    Body(<<UserMsg(1), RoutingEntry, BotAutomatedResponseMsg(3)>>),
    Body(<<AgentMsg(1), UserMsg(2), AutomatedProcessMsg(3)>>) }

\* One caller, one list_conversation_entries invocation after another.
NextPoll ==
  \/ \E skip \in BOOLEAN : InvokeList(1, Absent, skip)
  \/ \E lat \in PollLatencies, body \in PollBodies : ListResponse(1, lat, body)
  \/ RemoteCallFails(1, {"awaitList"})
  \/ ListWake(1)
  \/ Return(1)

SpecPoll == Init /\ [][NextPoll]_vars

\* The awaited entry-listing call settles: it resolves with a body or rejects.
ListCallSettles ==
  \/ \E lat \in PollLatencies, body \in PollBodies : ListResponse(1, lat, body)
  \/ RemoteCallFails(1, {"awaitList"})

\* The poll loop on a live event loop: every remote call settles and every
\* timer fires.
SpecPollFair ==
  SpecPoll /\ WF_vars(ListCallSettles) /\ WF_vars(ListWake(1))

\* One caller closing conversations, with or without a session.
NextClose ==
  \/ InvokeGuestToken(1)
  \/ GuestTokenResponse(1)
  \/ RemoteCallFails(1, {"awaitGuestToken"})
  \/ \E sid \in SessionArgs : InvokeClose(1, sid)
  \/ \E ok \in BOOLEAN : CloseStep(1, ok)
  \/ Return(1)

SpecClose == Init /\ [][NextClose]_vars

\* Latencies and bodies of the full specification: slow calls, so that a poll
\* loop spans few iterations while other callers run.
Latencies == {LongLatency}

Bodies == { Body(<<UserMsg(1)>>), Body(<<UserMsg(1), AgentMsg(2)>>) }

AwaitingPlain ==
  {"awaitGuestToken", "awaitAuthToken", "awaitCreate", "awaitSend",
   "awaitStatus", "awaitChat", "awaitList"}

\* Every tool, one caller, one invocation after another.
NextTools ==
  \/ InvokeGuestToken(1)
  \/ GuestTokenResponse(1)
  \/ InvokeAuthenticatedToken(1)
  \/ AuthenticatedTokenResponse(1)
  \/ \E sid \in SessionArgs : InvokeCreateConversation(1, sid)
  \/ CreateConversationResponse(1)
  \/ \E sid \in SessionArgs : InvokeSendMessage(1, sid)
  \/ \E sid \in SessionArgs : InvokeRoutingStatus(1, sid)
  \/ PlainResponse(1)
  \/ \E sid \in SessionArgs : InvokeShowChat(1, sid)
  \/ \E body \in Bodies : ShowChatResponse(1, body)
  \/ \E sid \in SessionArgs, skip \in BOOLEAN : InvokeList(1, sid, skip)
  \/ \E lat \in Latencies, body \in Bodies : ListResponse(1, lat, body)
  \/ ListWake(1)
  \/ \E sid \in SessionArgs : InvokeClose(1, sid)
  \/ \E ok \in BOOLEAN : CloseStep(1, ok)
  \/ RemoteCallFails(1, AwaitingPlain)
  \/ Return(1)

SpecTools == Init /\ [][NextTools]_vars

\* Concurrent callers: session issuance, a one-request tool and the poll
\* loop, in any interleaving of their awaits.
Next ==
  \E c \in Callers :
    \/ InvokeGuestToken(c)
    \/ GuestTokenResponse(c)
    \/ \E sid \in SessionArgs : InvokeSendMessage(c, sid)
    \/ PlainResponse(c)
    \/ \E sid \in SessionArgs, skip \in BOOLEAN : InvokeList(c, sid, skip)
    \/ \E lat \in Latencies, body \in Bodies : ListResponse(c, lat, body)
    \/ ListWake(c)
    \/ RemoteCallFails(c, {"awaitGuestToken", "awaitSend", "awaitList"})
    \/ Return(c)

Spec == Init /\ [][Next]_vars

\* Batches for the classification of entries: boilerplate under an agent's
\* greeting, noise of each kind under each role, participants joining and
\* leaving, and the entries that close a conversation.
ClassifyBodies ==
  { Body(<<>>),
    Body(<<UserMsg(1), BotOneMomentMsg(2), AgentMsg(3)>>),
    Body(<<UserMsg(1), BotMsg(2)>>),
    Body(<<AgentMsg(1), BotMsg(2), UserMsg(3)>>),
    Body(<<BotMsg(1), AutomatedProcessMsg(2)>>),
    Body(<<UserMsg(1), AutomatedProcessAs("Chatbot", 2)>>),
    Body(<<UserMsg(1), AutomatedProcessAs("EndUser", 2)>>),
    Body(<<UserMsg(1), AutomatedAssistantMsg(2)>>),
    Body(<<UserMsg(1), RoutingEntry, BotAutomatedResponseMsg(3)>>),
    Body(<<BotMsg(1), ParticipantChangedEntry("Agent", "Joined"), AgentMsg(5)>>),
    Body(<<BotMsg(1), ParticipantChangedEntry("Chatbot", "Left"), AgentMsg(5)>>),
    Body(<<UserMsg(1), BotMsg(2), ParticipantChangedEntry("EndUser", "Left")>>),
    Body(<<UserMsg(1), BotMsg(2), ConversationCloseEntry>>),
    Body(<<UserMsg(1), AgentMsg(2), RoutingEndEntry>>) }

\* Latencies of a remote call in the classification specification, in ms.
ClassifyLatencies == {0, LongLatency}

\* One caller reading the conversation: list_conversation_entries in either
\* mode and show_salesforce_chat.
NextClassify ==
  \/ \E skip \in BOOLEAN : InvokeList(1, Absent, skip)
  \/ \E lat \in ClassifyLatencies, body \in ClassifyBodies : ListResponse(1, lat, body)
  \/ ListWake(1)
  \/ InvokeShowChat(1, Absent)
  \/ \E body \in ClassifyBodies : ShowChatResponse(1, body)
  \/ RemoteCallFails(1, {"awaitList", "awaitChat"})
  \/ Return(1)

SpecClassify == Init /\ [][NextClassify]_vars

\* Batches of one conversation as it grows: the user's message, an agent's
\* answer, an older agent answer under a newer user message, and a bot
\* message after the agent's.
ReaderBodies ==
  { Body(<<UserMsg(1)>>),
    Body(<<UserMsg(1), AgentMsg(2)>>),
    Body(<<AgentMsg(1), UserMsg(2)>>),
    Body(<<UserMsg(1), AgentMsg(2), BotMsg(3)>>) }

\* Concurrent callers reading the same conversation in either mode, with
\* send_message calls in between.
NextReaders ==
  \E c \in Callers :
    \/ \E skip \in BOOLEAN : InvokeList(c, Absent, skip)
    \/ \E lat \in Latencies, body \in ReaderBodies : ListResponse(c, lat, body)
    \/ ListWake(c)
    \/ InvokeSendMessage(c, Absent)
    \/ PlainResponse(c)
    \/ RemoteCallFails(c, {"awaitList", "awaitSend"})
    \/ Return(c)

SpecReaders == Init /\ [][NextReaders]_vars

\* ===================================================================== claims
\* What the claims mean by "most recent Message entry" and by "noise", stated
\* over the batch itself and not through the loop's own sort and tests.
MessageIndexes(entries) == {i \in 1..Len(entries) : IsMessage(entries[i])}

HasMessage(entries) == MessageIndexes(entries) # {}

\* The Message entry with the largest transcriptedTimestamp; among equals,
\* the one the remote service listed first.
MostRecentMessage(entries) ==
  LET idx == MessageIndexes(entries)
      i == CHOOSE i \in idx : \A j \in idx :
             \/ entries[j].transcriptedTimestamp < entries[i].transcriptedTimestamp
             \/ /\ entries[j].transcriptedTimestamp = entries[i].transcriptedTimestamp
                /\ i <= j
  IN  entries[i]

IsNoise(e) ==
  \/ Includes(e.senderDisplayName, AutomatedProcess)
  \/ e.messageReason = "AutomatedResponse"
  \/ IsSystemMessageText(e.text)

IsQualifyingResponse(e) ==
  IsMessage(e) /\ e.role \in {"Chatbot", "Agent"} /\ ~IsNoise(e)

MostRecentHasRole(entries, role) ==
  HasMessage(entries) /\ MostRecentMessage(entries).role = role

MostRecentQualifies(entries) ==
  HasMessage(entries) /\ IsQualifyingResponse(MostRecentMessage(entries))

Polling(c) ==
  call[c].tool = "list_conversation_entries" /\ ~call[c].skipPolling

Returned(c) == call[c].pc = "done" /\ call[c].result.status = "ok"

\* The first batch has been fetched and no later one.
AfterFirstBatch(c) ==
  /\ call[c].nList = 1
  /\ call[c].pc \in {"sleeping", "done"}
  /\ call[c].entriesResult.truthy

\* C1: in polling mode, when the first fetched batch's most recent Message
\* entry (over all roles) has role Agent and is not noise, the loop stops after
\* exactly one entry-listing call and the result has isLiveAgent = true.
C1_AgentFirstBatchStops ==
  \A c \in Callers :
    ( /\ Polling(c)
      /\ AfterFirstBatch(c)
      /\ MostRecentHasRole(call[c].entriesResult.entries, "Agent")
      /\ MostRecentQualifies(call[c].entriesResult.entries) )
    => /\ Returned(c)
       /\ call[c].nList = 1
       /\ call[c].nReq = 1
       /\ call[c].result.isLiveAgent

C1_Witness ==
  \E c \in Callers :
    /\ Polling(c)
    /\ AfterFirstBatch(c)
    /\ MostRecentHasRole(call[c].entriesResult.entries, "Agent")
    /\ MostRecentQualifies(call[c].entriesResult.entries)
    /\ Len(call[c].entriesResult.entries) = 3
    /\ Returned(c)
    /\ call[c].result.isLiveAgent

\* C2: in polling mode the loop does not return while every fetched batch's
\* most recent Message entry has role EndUser; it returns only after a batch
\* whose most recent Message entry is a qualifying response has been fetched,
\* or after the 25 s deadline has elapsed.
C2_ReturnsOnlyOnQualifyingOrDeadline ==
  \A c \in Callers :
    (Polling(c) /\ Returned(c))
    => \/ MostRecentQualifies(call[c].entriesResult.entries)
       \/ call[c].elapsed >= maxWaitTime

\* The part of C2 about the end user's own message being the newest one
\* (a stale bot message under it included).
C2_EndUserNewestKeepsPolling ==
  \A c \in Callers :
    ( /\ Polling(c)
      /\ Returned(c)
      /\ MostRecentHasRole(call[c].entriesResult.entries, "EndUser") )
    => call[c].elapsed >= maxWaitTime

CeilDiv(a, b) == (a + b - 1) \div b

\* C10: with poll interval 500 ms and deadline 25000 ms, one polling-mode
\* invocation issues at most ceil(d/p)+1 entry-listing calls, whatever the
\* remote responses and latencies.
C10_AtMostCeilCalls ==
  \A c \in Callers :
    Polling(c) => call[c].nList <= CeilDiv(maxWaitTime, pollInterval) + 1

SessionTools ==
  {"create_conversation", "send_message", "list_conversation_entries",
   "get_conversation_routing_status", "show_salesforce_chat"}

\* C3: every remote request issued on behalf of a session-scoped call carries
\* the access token of the session named in that call, whatever other callers
\* do meanwhile (a poll loop's later requests included).
C3_RequestsCarryOwnSessionToken ==
  \A c \in Callers :
    ( /\ call[c].tool \in SessionTools
      /\ Truthy(call[c].sid)
      /\ Known(call[c].sid) )
    => call[c].reqTokens \subseteq {sessions[call[c].sid].accessToken}

Closing(c) == call[c].tool = "close_conversation"

C6_CloseAlwaysReportsSuccess ==
  \A c \in Callers :
    Closing(c) =>
      /\ call[c].result.status # "error"
      /\ call[c].pc = "done" =>
           call[c].result.status = "ok" /\ call[c].result.success

C6_Witness ==
  \E c \in Callers :
    /\ Closing(c)
    /\ call[c].pc = "done"
    /\ call[c].sid = StaleId
    /\ call[c].tried = CloseMethods
    /\ call[c].succeeded = {}
    /\ call[c].result.success

\* C7: every close_conversation call invokes both DELETE /messaging-session
\* (method 4) and DELETE /conversations/{id} (method 5).
C7_CloseCallsBothDeletes ==
  \A c \in Callers :
    (Closing(c) /\ call[c].pc = "done") => {4, 5} \subseteq call[c].tried

\* C8: a session-scoped tool call other than close whose supplied sessionId is
\* not a key of the session store fails with the "Invalid sessionId" error,
\* issues no remote request and leaves the session store unchanged.
C8_UnknownSessionRejected ==
  [][ \A c \in Callers :
        ( /\ call[c].pc = "idle"
          /\ call'[c].pc # "idle"
          /\ call'[c].tool \in SessionTools
          /\ call'[c].sid # Absent
          /\ ~Known(call'[c].sid) )
        => /\ call'[c].pc = "done"
           /\ call'[c].result = ErrorResult("InvalidSessionId")
           /\ call'[c].nReq = 0
           /\ sessions' = sessions ]_vars

\* C9: no payload handed back to the caller contains an access token issued
\* by the remote service, for any tool and any outcome.
C9_NoTokenInPayload ==
  \A c \in Callers :
    call[c].pc = "done" => call[c].result.tokens = {}

\* The slowest single entry-listing call of the poll-loop specification.
SlowestPollCall == CHOOSE l \in PollLatencies : \A m \in PollLatencies : m <= l

\* C11: a polling-mode list_conversation_entries invocation returns no later
\* than d + (latency of a single remote call) after it started, d = 25000 ms;
\* the 500 ms sleep between polls never carries the return past that bound.
C11_ReturnsWithinDeadlinePlusLatency ==
  \A c \in Callers :
    (Polling(c) /\ Returned(c))
    => call[c].elapsed <= maxWaitTime + SlowestPollCall

ImmediateMode(c) ==
  call[c].tool = "list_conversation_entries" /\ call[c].skipPolling

\* C12: with skipPolling = true, list_conversation_entries issues exactly one
\* entry-listing call and returns without sleeping, whether or not the batch
\* has a qualifying response.
C12_ImmediateModeOneCallNoSleep ==
  \A c \in Callers :
    ImmediateMode(c)
    => /\ call[c].nSleep = 0
       /\ call[c].pc # "sleeping"
       /\ call[c].nList <= 1
       /\ Returned(c) => (call[c].nList = 1 /\ call[c].nReq = 1)

\* An immediate-mode call has returned a batch in which the end user's own
\* message is the newest, after a single call.
C12_Witness ==
  \E c \in Callers :
    /\ ImmediateMode(c)
    /\ Returned(c)
    /\ call[c].nList = 1
    /\ call[c].nSleep = 0
    /\ MostRecentHasRole(call[c].entriesResult.entries, "EndUser")
    /\ ~call[c].result.isLiveAgent

\* The loop of a polling-mode call ran out of time: it was left by the while
\* test, never having seen a valid newest message.
DeadlineElapsed(c) ==
  /\ Polling(c)
  /\ Returned(c)
  /\ ~call[c].foundValidMessage
  /\ call[c].elapsed >= maxWaitTime

\* C13: when a polling-mode call returns because the deadline elapsed without
\* the loop having seen a qualifying response as the most recent message, the
\* role metadata says no live agent and the instruction is the "still waiting,
\* call list_conversation_entries again" one, never hand-off or verbatim.
C13_DeadlineAsksToPollAgain ==
  \A c \in Callers :
    DeadlineElapsed(c)
    => /\ call[c].result.instruction = "waiting"
       /\ ~call[c].result.isLiveAgent

ListReturned(c) ==
  call[c].tool = "list_conversation_entries" /\ Returned(c)

\* C14: when the batches fetched by a list_conversation_entries call have no
\* entries at all, the result has mostRecentSenderRole = "Unknown",
\* isLiveAgent = false, conversationEnded = false and the "keep polling"
\* instruction (stated for the last batch, which alone feeds the result).
C14_EmptyBatchUnknownKeepPolling ==
  \A c \in Callers :
    (ListReturned(c) /\ call[c].entriesResult.entries = <<>>)
    => /\ call[c].result.mostRecentSenderRole = "Unknown"
       /\ ~call[c].result.isLiveAgent
       /\ ~call[c].result.conversationEnded
       /\ call[c].result.instruction = "waiting"
       /\ call[c].result.entries = <<>>

\* A polling call has run to the deadline on empty batches.
C14_Witness ==
  \E c \in Callers :
    /\ DeadlineElapsed(c)
    /\ call[c].entriesResult = Body(<<>>)
    /\ call[c].nList > 1
    /\ call[c].result.mostRecentSenderRole = "Unknown"
    /\ call[c].result.instruction = "waiting"

MostRecentIsNoise(entries) ==
  HasMessage(entries) /\ IsNoise(MostRecentMessage(entries))

\* C15: in polling mode the loop never stops before the deadline on a batch
\* whose most recent Message entry is noise (sender name contains "Automated
\* Process", messageReason is "AutomatedResponse", or the text has a known
\* boilerplate phrase), whatever that entry's role.
C15_NoiseNewestKeepsWaiting ==
  \A c \in Callers :
    ( /\ Polling(c)
      /\ Returned(c)
      /\ MostRecentIsNoise(call[c].entriesResult.entries) )
    => call[c].elapsed >= maxWaitTime

QualifyingIndexes(entries) ==
  {i \in 1..Len(entries) : IsQualifyingResponse(entries[i])}

HasQualifying(entries) == QualifyingIndexes(entries) # {}

\* The qualifying response with the largest transcriptedTimestamp; among
\* equals, the one the remote service listed first.
MostRecentQualifying(entries) ==
  LET idx == QualifyingIndexes(entries)
      i == CHOOSE i \in idx : \A j \in idx :
             \/ entries[j].transcriptedTimestamp < entries[i].transcriptedTimestamp
             \/ /\ entries[j].transcriptedTimestamp = entries[i].transcriptedTimestamp
                /\ i <= j
  IN  entries[i]

MostRecentQualifyingHasRole(entries, role) ==
  HasQualifying(entries) /\ MostRecentQualifying(entries).role = role

\* C16: in every list_conversation_entries result, isLiveAgent is true iff the
\* most recent qualifying response of the batch has role Agent; when it has
\* role Chatbot, isLiveAgent is false and the instruction is not the hand-off
\* one.
C16_LiveAgentIffNewestResponseIsAgent ==
  \A c \in Callers :
    ListReturned(c)
    => LET es == call[c].entriesResult.entries IN
       /\ call[c].result.isLiveAgent <=> MostRecentQualifyingHasRole(es, "Agent")
       /\ MostRecentQualifyingHasRole(es, "Chatbot")
            => /\ ~call[c].result.isLiveAgent
               /\ call[c].result.instruction # "handoff"

\* A batch with an older Agent message under the bot's newer one was returned:
\* no live agent, no hand-off.
C16_Witness ==
  \E c \in Callers :
    /\ ListReturned(c)
    /\ MostRecentQualifyingHasRole(call[c].entriesResult.entries, "Chatbot")
    /\ \E i \in QualifyingIndexes(call[c].entriesResult.entries) :
         call[c].entriesResult.entries[i].role = "Agent"
    /\ ~call[c].result.isLiveAgent
    /\ call[c].result.instruction # "handoff"

\* The close events the claim names: ConversationClose, a RoutingResult that
\* ends the conversation, or a ParticipantChanged saying the end user left.
EndUserCloseEvent(e) ==
  \/ e.entryType = "ConversationClose"
  \/ (e.entryType = "RoutingResult" /\ e.routingType = "EndConversation")
  \/ /\ e.entryType = "ParticipantChanged"
     /\ e.participantChangeType = "Left"
     /\ e.leftRole = "EndUser"

\* C17: conversationEnded is true iff the last fetched batch has a
\* ConversationClose entry, a RoutingResult entry with routingType
\* EndConversation, or a ParticipantChanged entry saying the end user left; a
\* participant of another role leaving does not mark the conversation ended.
C17_EndedIffCloseOrEndUserLeft ==
  \A c \in Callers :
    ListReturned(c)
    => LET es == call[c].entriesResult.entries IN
       call[c].result.conversationEnded
         <=> \E i \in 1..Len(es) : EndUserCloseEvent(es[i])

ChatReturned(c) == call[c].tool = "show_salesforce_chat" /\ Returned(c)

Range(s) == {s[i] : i \in 1..Len(s)}

\* C18: an entry with sender role EndUser is never in the entries list that
\* list_conversation_entries returns, and it is in the show_salesforce_chat
\* transcript whenever it is a Message entry that is not noise.
C18_EndUserOutOfEntriesInTranscript ==
  \A c \in Callers :
    /\ ListReturned(c)
         => \A e \in Range(call[c].result.entries) : e.role # "EndUser"
    /\ ChatReturned(c)
         => \A e \in Range(call[c].entriesResult.entries) :
              (e.role = "EndUser" /\ IsMessage(e) /\ ~IsNoise(e))
              => e \in Range(call[c].result.messages)

\* A transcript with the end user's message and the bot's answer was returned.
C18_Witness ==
  \E c \in Callers :
    /\ ChatReturned(c)
    /\ \E e \in Range(call[c].result.messages) : e.role = "EndUser"
    /\ \E e \in Range(call[c].result.messages) : e.role = "Chatbot"

\* C19: a Message entry is in the entries list returned by
\* list_conversation_entries iff it is a qualifying response: entryType
\* Message, role Chatbot or Agent, and not noise.
C19_EntriesAreTheQualifyingResponses ==
  \A c \in Callers :
    ListReturned(c)
    => \A e \in Range(call[c].entriesResult.entries) :
         IsMessage(e)
         => (e \in Range(call[c].result.entries) <=> IsQualifyingResponse(e))

\* The example of C19: for [EndUser "hi" ts 1, Chatbot "One moment while I
\* connect you" ts 2, Agent "Hi I am Sam" ts 3] the list has the agent's entry
\* only and isLiveAgent is true.
C19_ExampleBatch ==
  \A c \in Callers :
    ( /\ ListReturned(c)
      /\ call[c].entriesResult.entries
           = <<UserMsg(1), BotOneMomentMsg(2), AgentMsg(3)>> )
    => /\ call[c].result.entries = <<AgentMsg(3)>>
       /\ call[c].result.isLiveAgent

FromAutomatedProcess(e) == Includes(e.senderDisplayName, AutomatedProcess)

\* C20: an entry whose senderDisplayName contains "Automated Process" is noise
\* at every classification site, whatever its role: as the newest message it
\* never stops the poll loop, it is never the most recent response behind
\* _roleInfo, never in the returned entries and never in the
\* show_salesforce_chat transcript.
C20_AutomatedProcessIsNoiseEverywhere ==
  \A c \in Callers :
    /\ ( /\ Polling(c)
         /\ Returned(c)
         /\ HasMessage(call[c].entriesResult.entries)
         /\ FromAutomatedProcess(MostRecentMessage(call[c].entriesResult.entries)) )
         => (call[c].elapsed >= maxWaitTime /\ ~call[c].foundValidMessage)
    /\ ListReturned(c)
         => /\ ~Includes(call[c].result.mostRecentSenderName, AutomatedProcess)
            /\ \A e \in Range(ResponseMessages(call[c].entriesResult.entries)) :
                 ~FromAutomatedProcess(e)
            /\ \A e \in Range(call[c].result.entries) : ~FromAutomatedProcess(e)
    /\ ChatReturned(c)
         => \A e \in Range(call[c].result.messages) : ~FromAutomatedProcess(e)

\* A polling call waited out the deadline on a batch whose newest message is
\* an Agent-role "Automated Process" one, and reported the bot's older message.
C20_Witness ==
  \E c \in Callers :
    /\ DeadlineElapsed(c)
    /\ MostRecentHasRole(call[c].entriesResult.entries, "Agent")
    /\ FromAutomatedProcess(MostRecentMessage(call[c].entriesResult.entries))
    /\ call[c].result.mostRecentSenderRole = "Chatbot"
    /\ call[c].result.entries = <<BotMsg(1)>>

ListFailed(r) ==
  /\ r.tool = "list_conversation_entries"
  /\ r.result.status = "error"
  /\ r.result.error = "AxiosError"

\* C21: a transport error from an entry-listing call inside the poll loop ends
\* the list_conversation_entries call at once: the call is done with an error
\* payload, and no remote call and no sleep follow the failed one.
C21_ListingErrorEndsCall ==
  [][ \A c \in Callers :
        ListFailed(call'[c])
        => /\ call'[c].pc = "done"
           /\ call[c].pc \in {"awaitList", "done"}
           /\ call'[c].nList = call[c].nList
           /\ call'[c].nSleep = call[c].nSleep
           /\ call'[c].nReq = call[c].nReq ]_vars

\* A polling call failed on a later poll, after having slept.
C21_Witness ==
  \E c \in Callers :
    /\ Polling(c)
    /\ ListFailed(call[c])
    /\ call[c].pc = "done"
    /\ call[c].nList >= 2
    /\ call[c].nSleep >= 1

CloseCompleted(c) ==
  call[c].tool = "close_conversation" /\ call[c].pc = "done"

\* C22: after a close_conversation call for a session completes, that session's
\* record (access token and conversationId) is no longer in the session store.
C22_CloseDeletesSession ==
  \A c \in Callers :
    (CloseCompleted(c) /\ Truthy(call[c].sid)) => ~Known(call[c].sid)

\* The fields of a list_conversation_entries result that classify the batch.
Classification(r) ==
  [entries |-> r.result.entries,
   mostRecentSenderRole |-> r.result.mostRecentSenderRole,
   mostRecentSenderName |-> r.result.mostRecentSenderName,
   isLiveAgent |-> r.result.isLiveAgent,
   conversationEnded |-> r.result.conversationEnded]

SiteVerdicts(e) ==
  { IsValidResponse(<<e>>), RoleInfoKeeps(e), FilterKeeps(e), WidgetKeeps(e) }

\* C24: the noise predicate is the same at every filter site: for every Message
\* entry, the poll loop's stop test, the _roleInfo selection, the returned
\* entries filter and the show_salesforce_chat transcript filter agree on
\* whether the entry is noise.
C24_SitesAgreeOnNoise ==
  \A c \in Callers :
    (ListReturned(c) \/ ChatReturned(c))
    => \A e \in Range(call[c].entriesResult.entries) :
         (IsMessage(e) /\ IsResponseRole(e))
         => Cardinality(SiteVerdicts(e)) = 1

Succeeds(c, pc) ==
  /\ call[c].pc = pc
  /\ call'[c].pc = "done"
  /\ call'[c].result.status = "ok"

\* The step adds one fresh session, the one whose id the guest-token call
\* returns, and leaves the others as they are.
AddsSession(c) ==
  /\ Succeeds(c, "awaitGuestToken")
  /\ call'[c].result.sessionId \notin DOMAIN sessions
  /\ DOMAIN sessions' = DOMAIN sessions \cup {call'[c].result.sessionId}
  /\ \A s \in DOMAIN sessions : sessions'[s] = sessions[s]

\* The step sets the conversationId of the session the create_conversation
\* call names to the id the call returns, and nothing else.
SetsConversation(c) ==
  /\ Succeeds(c, "awaitCreate")
  /\ Known(call[c].sid)
  /\ sessions' = [sessions EXCEPT
       ![call[c].sid].conversationId = call'[c].result.conversationId]

Fails(c) ==
  call[c].result.status # "error" /\ call'[c].result.status = "error"

InLoop(c) ==
  /\ call[c].tool = "list_conversation_entries"
  /\ call[c].pc \in {"awaitList", "sleeping"}

\* C26: every list_conversation_entries call terminates: when each remote
\* entry-listing call eventually returns or fails, the call eventually returns
\* a result or an error, whatever the remote responses (empty and falsy
\* bodies included).
C26_ListCallTerminates ==
  \A c \in Callers : InLoop(c) ~> (call[c].pc = "done")

IsPrefix(s, t) == Len(s) <= Len(t) /\ SubSeq(t, 1, Len(s)) = s

\* Caller c2 receives its list_conversation_entries result in this step, while
\* c1 holds an earlier result of the same conversation whose batch the new
\* batch extends.
LaterResult(c1, c2) ==
  /\ c1 # c2
  /\ ListReturned(c1)
  /\ call[c2].pc # "done"
  /\ call'[c2].tool = "list_conversation_entries"
  /\ call'[c2].pc = "done"
  /\ call'[c2].result.status = "ok"
  /\ IsPrefix(call[c1].entriesResult.entries, call'[c2].entriesResult.entries)

\* C27: hand-off is one-directional per conversation: once a
\* list_conversation_entries result has reported isLiveAgent = true, no later
\* result for the same conversation reports isLiveAgent = false.
C27_HandOffIsOneDirectional ==
  [][ \A c1, c2 \in Callers :
        (LaterResult(c1, c2) /\ call[c1].result.isLiveAgent)
        => call'[c2].result.isLiveAgent ]_vars

\* The loop of the call was left at its first break: the newest message of the
\* last batch was judged a valid response.
StoppedOnValidResponse(c) ==
  ListReturned(c) /\ IsValidResponse(call[c].entriesResult.entries)

\* C28: when the poll loop stops because it judged the batch's most recent
\* Message entry a valid response, mostRecentSenderRole and
\* mostRecentSenderName are those of that entry, the entry is in the returned
\* entries, and unless conversationEnded the instruction is hand-off (Agent)
\* or verbatim (Chatbot), never "still waiting".
C28_StopAndMetadataAgree ==
  \A c \in Callers :
    StoppedOnValidResponse(c)
    => LET m == AllMessages(call[c].entriesResult.entries)[1]
           res == call[c].result
       IN  /\ res.mostRecentSenderRole = m.role
           /\ res.mostRecentSenderName = m.senderDisplayName
           /\ m \in Range(res.entries)
           /\ ~res.conversationEnded
                => res.instruction
                     = IF m.role = "Agent" THEN "handoff" ELSE "verbatim"

\* C29: _roleInfo.instruction is one of four, chosen by fixed precedence:
\* "ended" whenever conversationEnded (a live agent notwithstanding); otherwise
\* hand-off iff isLiveAgent; otherwise "still waiting" iff no valid message was
\* found or mostRecentSenderRole is "Unknown"; otherwise verbatim.  Hence
\* hand-off is issued iff isLiveAgent and not conversationEnded.
C29_InstructionPrecedence ==
  \A c \in Callers :
    ListReturned(c)
    => LET res == call[c].result
           nothingFound ==
             ~call[c].foundValidMessage \/ res.mostRecentSenderRole = "Unknown"
       IN  /\ res.instruction \in {"ended", "handoff", "waiting", "verbatim"}
           /\ res.instruction = "ended" <=> res.conversationEnded
           /\ res.instruction = "handoff"
                <=> (res.isLiveAgent /\ ~res.conversationEnded)
           /\ res.instruction = "waiting"
                <=> (~res.conversationEnded /\ ~res.isLiveAgent /\ nothingFound)
           /\ res.instruction = "verbatim"
                <=> (~res.conversationEnded /\ ~res.isLiveAgent /\ ~nothingFound)

\* A result for a batch that has both an agent's message and a close event.
C29_Witness ==
  \E c \in Callers :
    /\ ListReturned(c)
    /\ call[c].result.conversationEnded
    /\ call[c].result.isLiveAgent
    /\ call[c].result.instruction = "ended"

\* C30: a session-scoped tool call issues a remote request only after setting
\* the client's credential from the session named in that same call; a call
\* that supplies no sessionId issues no remote request, and so never reuses a
\* credential an earlier call left on the shared client.
C30_RequestsOnlyUnderOwnSession ==
  \A c \in Callers :
    (call[c].tool \in SessionTools /\ call[c].nReq > 0)
    => /\ Truthy(call[c].sid)
       /\ Known(call[c].sid)
       /\ call[c].reqTokens = {sessions[call[c].sid].accessToken}

====
